---- MODULE Spec2Model ----
(***************************************************************************)
(* A model of package vsop87 (vsop87.go): NewEllipticModel with            *)
(* coeff.parse, which build the coefficient store from the fixed-column    *)
(* VSOP87 files, and EllipticModel.Pos with coeff.sum and pmod, which      *)
(* evaluate the six series at a date.                                      *)
(*                                                                         *)
(* A line of a coefficient file is the record of what parse reads from     *)
(* it: its length, the bytes at columns 41 and 59, the body named by       *)
(* columns 22-29, and the results strconv.Atoi / strconv.ParseFloat give   *)
(* for columns 60-67, 79-97, 98-111 and 111-131.                           *)
(***************************************************************************)
EXTENDS Integers, Sequences, FiniteSets, TLC

VARIABLES
    corpus,   \* which family of files the directory's one real file is from
    fbody,    \* the body whose coefficient file is the real one
    file,     \* that file once ioutil.ReadFile has read it: [read, exists, lines]
    reftdj,   \* the tdj argument of NewEllipticModel
    budget,   \* constructions the program still starts
    pc,       \* position in NewEllipticModel: "idle", "body", "loop"
    prec,     \* the prec argument of the running construction
    q,        \* local q of NewEllipticModel
    at,       \* local at: powers of abs(t)
    emc,      \* em.c of the model under construction, as slot -> terms
    bi,       \* index in the range over the bodies
    ic,       \* element byte of the running parse call
    n,        \* line index n of parse (0-based)
    dl,       \* local dl of parse
    spins,    \* iterations of the block loop that changed nothing, in a row
    reads,    \* ioutil.ReadFile calls of the running construction
    results,  \* what the constructions so far returned, oldest first
    store,    \* em.c of the model Pos is called on
    emt,      \* em.t of that model: the time powers, shared by every caller
    calls,    \* calls of Pos the callers still make
    ppc,      \* per caller, its position in Pos: "idle", "pow", "sum"
    ptdj,     \* per caller, the argument tdj
    pbody,    \* per caller, the argument ibody
    pt,       \* per caller, the local t
    pidx,     \* per caller, the loop index i, then the element being summed
    pr,       \* per caller, the Elliptic r it passed
    log       \* the finished calls, in the order they returned: [tdj, ibody, r]

nvars == <<corpus, fbody, file, reftdj, budget, pc, prec, q, at, emc, bi, ic, n, dl,
           spins, reads, results>>

pvars == <<store, emt, calls, ppc, ptdj, pbody, pt, pidx, pr, log>>

vars == <<nvars, pvars>>

----------------------------------------------------------------------------
(* Bounds of the model *)

MaxLines == 3
MaxBlocks == 3
MaxSpin == 2
MaxCalls == 3

----------------------------------------------------------------------------
(* Body constants and the parallel arrays *)

Sun == 0
Mercury == 1
Venus == 2
Earth == 3
Mars == 4
Jupiter == 5
Saturn == 6
Uranus == 7
Neptune == 8
EarthMoon == 9
nBodies == 10

t2000 == 2451545
a1000 == 365250

\* a0, in units of 1e-4 au, indexed by body constant + 1
a0 == <<0, 3871, 7233, 10000, 15237, 52026, 95547, 192181, 301096, 10000>>

\* the range of the body loop of NewEllipticModel, in its order
BodyOrder == <<Mercury, Venus, EarthMoon, Mars, Jupiter, Saturn, Uranus, Neptune>>

\* cbuf's length
CbufLen == 2047

\* the byte '0'
Char0 == 48

Abs(x) == IF x < 0 THEN -x ELSE x

----------------------------------------------------------------------------
(* Precisions.  A precision is [nan, v]: NaN, or v in units of 1e-5.       *)

Num(v) == [nan |-> FALSE, v |-> v]
NaN == [nan |-> TRUE, v |-> 0]

\* prec < 0 || prec > .01 : every comparison with NaN is false
PrecInvalid(p) == (~p.nan) /\ (p.v < 0 \/ p.v > 1000)

\* -math.Log10(prec + 1e-50) on the sampled precisions (powers of ten, and
\* 0 where the 1e-50 is what is left), then the clamp q < 3 -> 3
NegLog10(v) ==
    CASE v = 0 -> 50
      [] v = 1 -> 5
      [] v = 10 -> 4
      [] v = 100 -> 3
      [] v = 1000 -> 2

ClampQ(x) == IF x < 3 THEN 3 ELSE x

QOf(p) == IF p.nan THEN 0 ELSE ClampQ(NegLog10(p.v))

\* at[i] = t * at[i-1] with t = math.Abs(tdj-t2000) / a1000; the reference
\* dates are drawn so that t is a whole number
RECURSIVE AtPow(_, _)
AtPow(t, i) == IF i = 0 THEN 1 ELSE t * AtPow(t, i - 1)

AtOf(tdj) == [i \in 0..5 |-> AtPow(Abs(tdj - t2000) \div a1000, i)]

\* BelowThreshold with the comparison turned round
BelowThresholdReversed(a, p, qq, it, d0, dl0, au, ibody) ==
    IF p.nan THEN FALSE
    ELSE Abs(a) * (qq - 2) * (d0 * 10000 + it * dl0)
           > p.v * (IF au THEN a0[ibody + 1] ELSE 10000)

\* math.Abs(a.a) < p, with p = prec/10/(q-2)/(d0 + it*dl*1e-4 + 1e-50),
\* times a0[ibody] when au.  Amplitudes are in units of 1e-6, precisions in
\* units of 1e-5, a0 in units of 1e-4: both sides are multiplied by the
\* (positive) denominators.  The 1e-50 only matters when d0 + it*dl*1e-4
\* is 0, where p is 0 for prec = 0 and beyond every amplitude otherwise,
\* which is what the product form gives.
BelowThreshold(a, p, qq, it, d0, dl0, au, ibody) ==
    IF p.nan THEN FALSE
    ELSE Abs(a) * (qq - 2) * (d0 * 10000 + it * dl0)
           < p.v * (IF au THEN a0[ibody + 1] ELSE 10000)

----------------------------------------------------------------------------
(* coeff.parse *)

Panic == [kind |-> "panic", line |-> 0, kept |-> <<>>]
LineErr(k) == [kind |-> "err", line |-> k, kept |-> <<>>]

\* The body of  for _, line := range lines[n : n+in]  from term cx on;
\* n0 is the index of the block's first term line, kept is cbuf[:cx], th
\* holds what the threshold p is computed from.
RECURSIVE TermLoop(_, _, _, _, _)
TermLoop(lines, n0, in, kept, th) ==
    LET cx == Len(kept) IN
    IF cx = in THEN [kind |-> "ok", line |-> 0, kept |-> kept]
    ELSE LET line == lines[n0 + cx + 1] IN
         IF cx >= CbufLen \/ line.len < 97 THEN Panic
         ELSE IF ~line.aok THEN LineErr(n0 + cx + 1)
         ELSE IF BelowThreshold(line.a, th.p, th.q, th.it, th.d0, th.dl,
                                th.au, th.ibody)
              THEN [kind |-> "ok", line |-> 0, kept |-> kept]
         ELSE IF line.len < 111 THEN Panic
         ELSE IF ~line.bok THEN LineErr(n0 + cx + 1)
         ELSE IF line.len < 131 THEN Panic
         ELSE IF ~line.cok THEN LineErr(n0 + cx + 1)
         ELSE TermLoop(lines, n0, in,
                       Append(kept, [a |-> line.a, b |-> line.b, c |-> line.c]),
                       th)

\* it := line[59] - '0', a byte
ItOf(line) == (line.c59 - Char0) % 256

\* The loop condition and the two breaks at the head of the block loop
LoopExits(lines, n0, icb) ==
    IF n0 >= Len(lines) THEN TRUE
    ELSE IF lines[n0 + 1].len < 132 THEN TRUE
    ELSE lines[n0 + 1].c41 # icb

\* in > len(lines)-n
EndOfFile(in, lines, n0) == in > Len(lines) - n0

\* One pass through the block loop from a header that is long enough and
\* carries the element byte: what it does to n, dl and the slot c[it].
\*   "err": return n, error   "panic": an index or slice out of range
\*   "continue": the continue of in == 0   "stored": c[it] set, n past the block
BlockStep(icb, ibody, lines, n0, qq, p, att, au, dl0) ==
    LET line == lines[n0 + 1]
        it == ItOf(line)
        in == line.cnt
    IN  IF line.bo # ibody
            THEN [kind |-> "err", line |-> n0 + 1, msg |-> "body"]
        ELSE IF ~line.cntok
            THEN [kind |-> "err", line |-> n0 + 1, msg |-> "atoi"]
        ELSE IF in = 0
            THEN [kind |-> "continue"]
        ELSE IF EndOfFile(in, lines, n0)
            THEN [kind |-> "err", line |-> 0, msg |-> "eof"]
        ELSE IF it > 5
            THEN [kind |-> "panic", what |-> "at[it]"]
        ELSE IF in < 0 \/ n0 + 1 + in > Len(lines)
            THEN [kind |-> "panic", what |-> "lines[n:n+in]"]
        ELSE LET d0 == att[it]
                 th == [p |-> p, q |-> qq, it |-> it, d0 |-> d0, dl |-> dl0,
                        au |-> au, ibody |-> ibody]
                 r == TermLoop(lines, n0 + 1, in, <<>>, th)
             IN  CASE r.kind = "panic" -> [kind |-> "panic", what |-> "term"]
                   [] r.kind = "err" ->
                        [kind |-> "err", line |-> r.line, msg |-> "float"]
                   [] r.kind = "ok" ->
                        [kind |-> "stored", it |-> it, kept |-> r.kept,
                         n |-> n0 + 1 + in, dl |-> d0]


----------------------------------------------------------------------------
(* float64, scaled down.  A number is a whole count of 1/Unit, kept to     *)
(* MantBits significant bits: every operation rounds its exact result to   *)
(* the nearest such number, ties to even, as IEEE 754 does with 53 bits.   *)

Unit == 8
MantBits == 4

RECURSIVE BitLen(_)
BitLen(k) == IF k = 0 THEN 0 ELSE 1 + BitLen(k \div 2)

RECURSIVE Pow2(_)
Pow2(k) == IF k = 0 THEN 1 ELSE 2 * Pow2(k - 1)

\* num/den >= 0 rounded to the nearest representable number
RoundRat(num, den) ==
    LET fl == num \div den
        quantum == IF BitLen(fl) <= MantBits THEN 1
                   ELSE Pow2(BitLen(fl) - MantBits)
        d == den * quantum
        k == num \div d
        rem2 == 2 * (num - k * d)
        kr == IF rem2 < d THEN k
              ELSE IF rem2 > d THEN k + 1
              ELSE IF k % 2 = 0 THEN k ELSE k + 1
    IN  kr * quantum

FRound(num, den) == IF num >= 0 THEN RoundRat(num, den) ELSE -RoundRat(-num, den)

FAdd(x, y) == FRound(x + y, 1)
FMul(x, y) == FRound(x * y, Unit)

One == Unit

\* 2*math.Pi
TwoPi == FRound(50265, 1000)

\* math.Cos on the arguments the sampled terms and dates give: Unit*cos(k/Unit)
CosTable ==
    <<8, 8, 8, 7, 7, 6, 6, 5, 4, 3, 3, 2, 1, 0, -1, -2, -3, -4, -5, -6, -6, -7,
      -7, -8, -8, -8, -8, -8, -7, -7, -7, -6, -5, -4, -4, -3, -2, -1, 0, 1, 2,
      3, 4, 5, 6, 6, 7, 7, 8, 8, 8, 8, 8, 8, 7, 7, 6, 5, 5, 4, 3, 2, 1, 0, -1>>

Cos(x) == CosTable[Abs(x) + 1]

\* math.Mod(x, y) for y > 0: exact, with the sign of x
Mod(x, y) == IF x >= 0 THEN x % y ELSE -((-x) % y)

\* func pmod
Pmod(x, y) ==
    LET r == Mod(x, y) IN
    IF r < 0 THEN FAdd(r, y) ELSE r

----------------------------------------------------------------------------
(* coeff.sum and EllipticModel.Pos *)

\* CosArg taking the power of t the slot is multiplied by
CosArgOfPower(term, ts, it) == FAdd(term.b, FMul(term.c, ts[it]))

\* term.b+term.c*ts[1]
CosArg(term, ts, it) == FAdd(term.b, FMul(term.c, ts[1]))

\* for _, term := range t { s += term.a * math.Cos(...) }, from term k on
RECURSIVE InnerSum(_, _, _, _, _)
InnerSum(terms, k, acc, ts, it) ==
    IF k > Len(terms) THEN acc
    ELSE InnerSum(terms, k + 1,
                  FAdd(acc, FMul(terms[k].a, Cos(CosArg(terms[k], ts, it)))),
                  ts, it)

\* for it, t := range c { ...; r += s * ts[it] }, from slot it on
RECURSIVE OuterSum(_, _, _, _)
OuterSum(c, it, acc, ts) ==
    IF it > 5 THEN acc
    ELSE OuterSum(c, it + 1,
                  FAdd(acc, FMul(InnerSum(c[it], 1, 0, ts, it), ts[it])), ts)

\* func (c *coeff) sum
Sum(c, ts) == OuterSum(c, 0, 0, ts)

\* t := (tdj - t2000) / a1000
TOf(tdj) == FRound((tdj - t2000) * Unit, a1000)

\* PowerWrite that keeps a power already computed
PowerWriteCached(ts, t, i) ==
    IF ts[i] # 0 THEN ts ELSE [ts EXCEPT ![i] = FMul(t, ts[i - 1])]

\* em.t[i] = t * em.t[i-1]
PowerWrite(ts, t, i) == [ts EXCEPT ![i] = FMul(t, ts[i - 1])]

ElementNames == <<"A", "L", "K", "H", "Q", "P">>
SeriesNames == <<"a", "l", "k", "h", "q", "p">>

\* The value Pos assigns to the e-th field of r, given cb and em.t
Element(cb, e, ts) ==
    IF e = 2 THEN Pmod(Sum(cb[SeriesNames[e]], ts), TwoPi)
    ELSE Sum(cb[SeriesNames[e]], ts)

ZeroElliptic == [A |-> 0, L |-> 0, K |-> 0, H |-> 0, Q |-> 0, P |-> 0]
ZeroPowers == [i \in 0..5 |-> 0]

\* Pos run from its first statement to its last with no other caller:
\* the time powers, then the six fields
RECURSIVE PowersFrom(_, _, _)
PowersFrom(ts, t, i) ==
    IF i > 5 THEN ts ELSE PowersFrom(PowerWrite(ts, t, i), t, i + 1)

PosAlone(c, tdj, ibody) ==
    LET ts == PowersFrom([ZeroPowers EXCEPT ![0] = One], TOf(tdj), 1) IN
    [f \in {"A", "L", "K", "H", "Q", "P"} |->
        Element(c[ibody],
                CHOOSE e \in 1..6 : ElementNames[e] = f, ts)]

Callers == {1, 2}

\* Pos is entered: em.t[0] = 1 and t := (tdj - t2000) / a1000
PosBegin(th, tdj, ibody) ==
    /\ ppc[th] = "idle"
    /\ calls > 0
    /\ calls' = calls - 1
    /\ emt' = [emt EXCEPT ![0] = One]
    /\ ptdj' = [ptdj EXCEPT ![th] = tdj]
    /\ pbody' = [pbody EXCEPT ![th] = ibody]
    /\ pt' = [pt EXCEPT ![th] = TOf(tdj)]
    /\ pidx' = [pidx EXCEPT ![th] = 1]
    /\ pr' = [pr EXCEPT ![th] = ZeroElliptic]
    /\ ppc' = [ppc EXCEPT ![th] = "pow"]
    /\ UNCHANGED <<store, log>>
    /\ UNCHANGED nvars

\* One iteration of  for i := 1; i < 6; i++ { em.t[i] = t * em.t[i-1] }
PosPower(th) ==
    /\ ppc[th] = "pow"
    /\ emt' = PowerWrite(emt, pt[th], pidx[th])
    /\ IF pidx[th] < 5
       THEN /\ pidx' = [pidx EXCEPT ![th] = pidx[th] + 1]
            /\ ppc' = ppc
       ELSE /\ pidx' = [pidx EXCEPT ![th] = 1]
            /\ ppc' = [ppc EXCEPT ![th] = "sum"]
    /\ UNCHANGED <<store, calls, ptdj, pbody, pt, pr, log>>
    /\ UNCHANGED nvars

\* One of the six assignments r.X = cb.x.sum(&em.t); after the last, Pos
\* returns
PosElement(th) ==
    /\ ppc[th] = "sum"
    /\ LET e == pidx[th]
           v == Element(store[pbody[th]], e, emt)
           r == [pr[th] EXCEPT ![ElementNames[e]] = v]
       IN  IF e < 6
           THEN /\ pr' = [pr EXCEPT ![th] = r]
                /\ pidx' = [pidx EXCEPT ![th] = e + 1]
                /\ UNCHANGED <<ppc, ptdj, pbody, pt, log>>
           ELSE /\ log' = Append(log, [tdj |-> ptdj[th], ibody |-> pbody[th],
                                       r |-> r])
                /\ pr' = [pr EXCEPT ![th] = ZeroElliptic]
                /\ pidx' = [pidx EXCEPT ![th] = 0]
                /\ ppc' = [ppc EXCEPT ![th] = "idle"]
                /\ ptdj' = [ptdj EXCEPT ![th] = t2000]
                /\ pbody' = [pbody EXCEPT ![th] = Sun]
                /\ pt' = [pt EXCEPT ![th] = 0]
    /\ UNCHANGED <<store, emt, calls>>
    /\ UNCHANGED nvars

\* Terms and series of the sampled models (amplitude, phase, frequency)
Term(a, ph, fr) == [a |-> a, b |-> ph, c |-> fr]

NoTerms == [it \in 0..5 |-> <<>>]

Series(s0, s1, s2) == [NoTerms EXCEPT ![0] = s0, ![1] = s1, ![2] = s2]

NoSeries == [a |-> NoTerms, l |-> NoTerms, k |-> NoTerms, h |-> NoTerms,
             q |-> NoTerms, p |-> NoTerms]

\* em.c of a model no body of which has terms: what &EllipticModel{} holds
EmptyStore == [b \in 0..(nBodies - 1) |-> NoSeries]

Stores ==
    { [EmptyStore EXCEPT
         ![Mercury] = [a |-> Series(<<Term(3, 0, 0)>>, <<>>, <<>>),
                       l |-> Series(<<Term(24, 0, 0)>>, <<Term(40, 0, 0)>>, <<>>),
                       k |-> Series(<<Term(4, 8, 8), Term(2, 0, 16)>>, <<>>,
                                    <<Term(8, 0, 8)>>),
                       h |-> Series(<<Term(12, 2, 0), Term(-7, 13, 0),
                                      Term(-9, 13, 4)>>, <<>>, <<>>),
                       q |-> Series(<<>>, <<Term(16, 4, 12)>>, <<>>),
                       p |-> NoTerms],
         ![Venus] = [NoSeries EXCEPT
                       !.a = Series(<<Term(6, 0, 0)>>, <<>>, <<>>),
                       !.l = Series(<<Term(-1, 0, 0)>>, <<>>, <<>>)]],
      [EmptyStore EXCEPT
         ![Mercury] = [NoSeries EXCEPT
                       !.l = Series(<<Term(-24, 0, 0)>>, <<Term(16, 0, 8)>>,
                                    <<>>),
                       !.p = Series(<<Term(5, 1, 1)>>, <<Term(5, 1, 1)>>,
                                    <<Term(5, 1, 1)>>)],
         ![Venus] = [NoSeries EXCEPT
                       !.l = Series(<<Term(56, 0, 0)>>, <<>>, <<>>),
                       !.k = Series(<<Term(1, 0, 0), Term(15, 0, 0),
                                      Term(-15, 0, 0)>>, <<>>, <<>>)]] }

Dates == { t2000 - a1000, t2000 - 182625, t2000, t2000 + a1000 }

QueryBodies == { Mercury, Venus }

\* No caller in Pos
PosIdle ==
    /\ emt = ZeroPowers
    /\ ppc = [th \in Callers |-> "idle"]
    /\ ptdj = [th \in Callers |-> t2000]
    /\ pbody = [th \in Callers |-> Sun]
    /\ pt = [th \in Callers |-> 0]
    /\ pidx = [th \in Callers |-> 0]
    /\ pr = [th \in Callers |-> ZeroElliptic]
    /\ log = <<>>

\* No model is queried
NoQueries == store = EmptyStore /\ calls = 0 /\ PosIdle

----------------------------------------------------------------------------
(* Coefficient files *)

\* A header line of body b for element e (1..6), time power it, count cnt
Hdr(b, e, it, cnt) ==
    [len |-> 132, c41 |-> Char0 + e, bo |-> b, c59 |-> Char0 + it,
     cntok |-> TRUE, cnt |-> cnt,
     aok |-> FALSE, a |-> 0, bok |-> FALSE, b |-> 0, cok |-> FALSE, c |-> 0]

\* A header whose columns 60-67 strconv.Atoi rejects
HdrNoCount(b, e, it) == [Hdr(b, e, it, 0) EXCEPT !.cntok = FALSE]

\* A term line: amplitude a (1e-6), phase ph, frequency fr; columns 41 and
\* 59 hold a blank, columns 22-29 no body name, columns 60-67 no integer
Trm(a, ph, fr) ==
    [len |-> 132, c41 |-> 32, bo |-> Sun, c59 |-> 32,
     cntok |-> FALSE, cnt |-> 0,
     aok |-> TRUE, a |-> a, bok |-> TRUE, b |-> ph, cok |-> TRUE, c |-> fr]

\* The empty line that follows a file's last newline
Blank == [Trm(0, 0, 0) EXCEPT !.len = 0, !.aok = FALSE, !.bok = FALSE,
                              !.cok = FALSE]

\* What strings.Split gives for an empty file
EmptyFile == [read |-> TRUE, exists |-> TRUE, lines |-> <<Blank>>]
Unread == [read |-> FALSE, exists |-> FALSE, lines |-> <<>>]
Missing == [read |-> TRUE, exists |-> FALSE, lines |-> <<>>]

\* Family "lines": every sequence of 1 to MaxLines of these lines (strings.Split
\* never gives fewer than one)
LineKinds(b) ==
    { Hdr(b, 1, 0, 1), Hdr(b, 1, 0, 2), Hdr(b, 1, 0, 0), Hdr(b, 1, 7, 1),
      Trm(2000, 0, 0), [Trm(0, 0, 0) EXCEPT !.aok = FALSE], Blank }

SeqsUpTo(S, lo, k) == UNION { [1..m -> S] : m \in lo..k }

\* Family "blocks": at most MaxBlocks of these segments, then the blank line
Segments(b) ==
    { <<Hdr(b, 1, 0, 1), Trm(2000, 0, 0)>>,
      <<Hdr(b, 1, 1, 2), Trm(500, 1, 2), Trm(50, 3, 4)>>,
      <<Hdr(b, 2, 0, 2), Trm(-2000, 0, 1), Trm(0, 1, 1)>>,
      <<Hdr(b, 2, 1, 2), Trm(50, 0, 0), [Trm(0, 0, 0) EXCEPT !.aok = FALSE]>>,
      <<Hdr(b, 6, 5, 1), [Trm(2000, 0, 0) EXCEPT !.len = 131]>>,
      <<Hdr(b, 3, 0, 1), [Trm(2000, 0, 0) EXCEPT !.bok = FALSE]>>,
      <<Hdr(Earth, 1, 0, 1), Trm(2000, 0, 0)>>,
      <<HdrNoCount(b, 1, 0)>>,
      <<Hdr(b, 1, 0, -1)>> }

\* Family "mono": only blocks parse accepts, one of them with a term that
\* does not parse behind a small one
MonoSegments(b) ==
    { <<Hdr(b, 1, 0, 1), Trm(2000, 0, 0)>>,
      <<Hdr(b, 1, 1, 2), Trm(500, 1, 2), Trm(50, 3, 4)>>,
      <<Hdr(b, 2, 0, 2), Trm(-2000, 0, 1), Trm(0, 1, 1)>>,
      <<Hdr(b, 2, 1, 2), Trm(50, 0, 0), [Trm(0, 0, 0) EXCEPT !.aok = FALSE]>> }

RECURSIVE Concat(_)
Concat(ss) == IF ss = <<>> THEN <<>> ELSE Head(ss) \o Concat(Tail(ss))

Files(fam, b) ==
    IF fam = "lines"
    THEN { [read |-> TRUE, exists |-> TRUE, lines |-> ls] :
              ls \in SeqsUpTo(LineKinds(b), 1, MaxLines) } \cup {Missing}
    ELSE { [read |-> TRUE, exists |-> TRUE, lines |-> Concat(ss) \o <<Blank>>] :
              ss \in SeqsUpTo(IF fam = "mono" THEN MonoSegments(b)
                              ELSE Segments(b), 0, MaxBlocks) }

----------------------------------------------------------------------------
(* NewEllipticModel *)

Precisions == { Num(-100), Num(0), Num(1), Num(100), Num(1000), Num(2000), NaN }

RefDates == { t2000, t2000 - a1000 }

NoSlots == [s \in {} |-> <<>>]

\* SetSlot appending to what the slot holds: c[it] = append(c[it], cbuf[:cx]...)
SetSlotAppending(c, slot, terms) ==
    [s \in (DOMAIN c) \cup {slot} |->
        IF s = slot THEN (IF slot \in DOMAIN c THEN c[slot] ELSE <<>>) \o terms
        ELSE c[s]]

\* c[it] = append([]abc{}, cbuf[:cx]...) on em.c[ibody].<element>
SetSlot(c, slot, terms) ==
    [s \in (DOMAIN c) \cup {slot} |-> IF s = slot THEN terms ELSE c[s]]

\* What a finished call of NewEllipticModel returned
Result(p, kind, msg, line, c, nreads) ==
    [prec |-> p, kind |-> kind, msg |-> msg, line |-> line, c |-> c,
     reads |-> nreads,
     \* where the call was when it returned: the body and parse's n
     body |-> IF bi = 0 THEN Sun ELSE BodyOrder[bi], n |-> n]

\* The locals of NewEllipticModel and parse between two constructions
Return(r) ==
    /\ results' = Append(results, r)
    /\ budget' = budget - 1
    /\ pc' = "idle"
    /\ prec' = Num(0) /\ q' = 0 /\ at' = AtOf(t2000) /\ emc' = NoSlots
    /\ bi' = 0 /\ ic' = 0 /\ n' = 0 /\ dl' = 0 /\ spins' = 0 /\ reads' = 0

\* func NewEllipticModel, up to the body loop
NewEllipticModel(p) ==
    /\ pc = "idle"
    /\ UNCHANGED pvars
    /\ budget > 0
    /\ IF PrecInvalid(p)
       THEN /\ Return(Result(p, "err", "prec", 0, NoSlots, reads))
            /\ UNCHANGED <<corpus, fbody, file, reftdj>>
       ELSE /\ prec' = p
            /\ q' = QOf(p)
            /\ at' = AtOf(reftdj)
            /\ emc' = NoSlots
            /\ bi' = 1
            /\ pc' = "body"
            /\ UNCHANGED <<corpus, fbody, file, reftdj, budget, ic, n, dl,
                           spins, reads, results>>

\* data, err := ioutil.ReadFile(...); lines := strings.Split(...); n := 0
\* and the call of parse('1', ...)
ReadFile ==
    /\ pc = "body"
    /\ UNCHANGED pvars
    /\ \E f \in (IF BodyOrder[bi] # fbody THEN {EmptyFile}
                 ELSE IF file.read THEN {file} ELSE Files(corpus, fbody)) :
         /\ file' = (IF BodyOrder[bi] = fbody THEN f ELSE file)
         /\ IF ~f.exists
            THEN /\ Return(Result(prec, "err", "io", 0, NoSlots, reads + 1))
                 /\ UNCHANGED <<corpus, fbody, reftdj>>
            ELSE /\ reads' = reads + 1
                 /\ ic' = Char0 + 1
                 /\ n' = 0
                 /\ dl' = 0
                 /\ spins' = 0
                 /\ pc' = "loop"
                 /\ UNCHANGED <<corpus, fbody, reftdj, budget, prec, q, at,
                                emc, bi, results>>

\* the lines of the file the running parse call works on
Lines == IF BodyOrder[bi] = fbody THEN file.lines ELSE EmptyFile.lines

\* One iteration of the block loop of parse that does not break
ParseBlock ==
    /\ pc = "loop"
    /\ UNCHANGED pvars
    /\ ~LoopExits(Lines, n, ic)
    /\ LET ibody == BodyOrder[bi]
           r == BlockStep(ic, ibody, Lines, n, q, prec, at, ic = Char0 + 1, dl)
       IN  CASE r.kind = "err" ->
                  /\ Return(Result(prec, "err", r.msg, r.line, NoSlots, reads))
                  /\ UNCHANGED <<corpus, fbody, file, reftdj>>
             [] r.kind = "panic" ->
                  /\ Return(Result(prec, "panic", r.what, 0, NoSlots, reads))
                  /\ UNCHANGED <<corpus, fbody, file, reftdj>>
             [] r.kind = "continue" ->
                  /\ spins < MaxSpin
                  /\ spins' = spins + 1
                  /\ UNCHANGED <<corpus, fbody, file, reftdj, budget, pc, prec,
                                 q, at, emc, bi, ic, n, dl, reads, results>>
             [] r.kind = "stored" ->
                  /\ emc' = SetSlot(emc, <<ibody, ic - Char0, r.it>>, r.kept)
                  /\ n' = r.n
                  /\ dl' = r.dl
                  /\ spins' = 0
                  /\ UNCHANGED <<corpus, fbody, file, reftdj, budget, pc, prec,
                                 q, at, bi, ic, reads, results>>

\* The block loop ends (its condition fails, or one of the two breaks):
\* parse returns n, nil; NewEllipticModel calls parse for the next element,
\* goes to the next body, or returns em, nil
ParseReturn ==
    /\ pc = "loop"
    /\ UNCHANGED pvars
    /\ LoopExits(Lines, n, ic)
    /\ IF ic < Char0 + 6
       THEN /\ ic' = ic + 1
            /\ dl' = 0
            /\ spins' = 0
            /\ UNCHANGED <<corpus, fbody, file, reftdj, budget, pc, prec, q,
                           at, emc, bi, n, reads, results>>
       ELSE IF bi < Len(BodyOrder)
       THEN /\ bi' = bi + 1
            /\ pc' = "body"
            /\ ic' = 0 /\ n' = 0 /\ dl' = 0 /\ spins' = 0
            /\ UNCHANGED <<corpus, fbody, file, reftdj, budget, prec, q, at,
                           emc, reads, results>>
       ELSE /\ Return(Result(prec, "ok", "", 0, emc, reads))
            /\ UNCHANGED <<corpus, fbody, file, reftdj>>

InitLocals ==
    /\ pc = "idle"
    /\ prec = Num(0) /\ q = 0 /\ at = AtOf(t2000) /\ emc = NoSlots
    /\ bi = 0 /\ ic = 0 /\ n = 0 /\ dl = 0 /\ spins = 0 /\ reads = 0
    /\ results = <<>>
    /\ file = Unread

InitNew ==
    /\ corpus \in {"lines", "blocks"}
    /\ fbody \in {Mercury, Neptune}
    /\ reftdj \in RefDates
    /\ budget = 1
    /\ InitLocals
    /\ NoQueries

NextNew ==
    \/ \E p \in Precisions : NewEllipticModel(p)
    \/ ReadFile
    \/ ParseBlock
    \/ ParseReturn

SpecNew == InitNew /\ [][NextNew]_vars

\* Two constructions from the same directory
InitMono ==
    /\ corpus = "mono"
    /\ fbody = Neptune
    /\ reftdj \in RefDates
    /\ budget = 2
    /\ InitLocals
    /\ NoQueries

SpecMono == InitMono /\ [][NextNew]_vars

----------------------------------------------------------------------------
(* Callers of Pos on a built model *)

\* No construction runs
NoConstruction ==
    /\ corpus = "blocks" /\ fbody = Mercury /\ reftdj = t2000 /\ budget = 0
    /\ InitLocals

\* One caller, one call after the other
InitPos ==
    /\ NoConstruction
    /\ store \in Stores
    /\ calls = MaxCalls
    /\ PosIdle

NextPos ==
    \/ \E tdj \in Dates, ibody \in QueryBodies : PosBegin(1, tdj, ibody)
    \/ PosPower(1)
    \/ PosElement(1)

SpecPos == InitPos /\ [][NextPos]_vars

\* Two callers on the same model, with no synchronization, one call each
\* or two calls of one
InitConc ==
    /\ NoConstruction
    /\ store \in Stores
    /\ calls = 2
    /\ PosIdle

NextConc ==
    \/ \E th \in Callers, tdj \in Dates, ibody \in QueryBodies :
          PosBegin(th, tdj, ibody)
    \/ \E th \in Callers : PosPower(th)
    \/ \E th \in Callers : PosElement(th)

SpecConc == InitConc /\ [][NextConc]_vars

----------------------------------------------------------------------------
(* Properties of NewEllipticModel and parse *)

Results == { results[k] : k \in 1..Len(results) }

IsPrefix(s, t) == Len(s) <= Len(t) /\ \A k \in 1..Len(s) : s[k] = t[k]

InRange(p) == (~p.nan) /\ p.v >= 0 /\ p.v <= 1000

\* C3 (as claimed): every precision outside [0, 0.01] is rejected with an
\* error, no model, before any file is read; 0 and 0.01 pass the check.
C3_RejectsOutside ==
    \A r \in Results :
        /\ ~InRange(r.prec) =>
              r.kind = "err" /\ r.msg = "prec" /\ r.reads = 0 /\ r.c = NoSlots
        /\ InRange(r.prec) => r.msg # "prec"

\* A header at line index i of the real file that declares more terms than
\* lines follow it (and is otherwise one parse accepts)
TruncatedHeaderAt(i) ==
    /\ file.exists
    /\ i < Len(file.lines)
    /\ LET h == file.lines[i + 1] IN
         /\ h.len >= 132
         /\ h.c41 \in (Char0 + 1)..(Char0 + 6)
         /\ h.bo = fbody
         /\ ItOf(h) <= 5
         /\ h.cntok
         /\ h.cnt > Len(file.lines) - i - 1

\* C2 (as claimed): a construction that stops at a header declaring more
\* terms than lines follow returns an error that names a line; it does
\* not crash and returns no model.
C2_TruncatedIsLineError ==
    \A r \in Results :
        (r.body = fbody /\ TruncatedHeaderAt(r.n)) =>
            (r.kind = "err" /\ r.line > 0)

\* C10 (as claimed): the time power indexes within 0..5, every term line
\* is long enough for its columns, the block buffer is not overrun: parse
\* never fails on one of these indexes.
C10_IndexesInRange ==
    \A r \in Results : r.kind = "panic" => r.msg = "lines[n:n+in]"

\* C9 (as claimed): every iteration of the block loop advances n or leaves
\* the loop, so no iteration leaves parse where it was.
C9_IterationAdvances == spins = 0

\* The blocks of a file: the line indexes of the headers met from line i
\* on by stepping over each header's declared terms
RECURSIVE Chain(_, _)
Chain(lines, i) ==
    IF i >= Len(lines) THEN <<>>
    ELSE LET h == lines[i + 1] IN
         IF \/ h.len < 132
            \/ h.c41 \notin (Char0 + 1)..(Char0 + 6)
            \/ ~h.cntok
            \/ h.cnt <= 0
            \/ i + 1 + h.cnt > Len(lines)
         THEN <<>>
         ELSE <<i>> \o Chain(lines, i + 1 + h.cnt)

\* The blocks of a file up to the first one whose element is lower than
\* the element e of a block before it
RECURSIVE GroupedChain(_, _, _)
GroupedChain(lines, i, e) ==
    IF i >= Len(lines) THEN <<>>
    ELSE LET h == lines[i + 1] IN
         IF \/ h.len < 132
            \/ h.c41 \notin (Char0 + e)..(Char0 + 6)
            \/ ~h.cntok
            \/ h.cnt <= 0
            \/ i + 1 + h.cnt > Len(lines)
         THEN <<>>
         ELSE <<i>> \o GroupedChain(lines, i + 1 + h.cnt, h.c41 - Char0)

\* The slot (body, element, time power) the header at line index i names
SlotOf(lines, i) == <<fbody, lines[i + 1].c41 - Char0, ItOf(lines[i + 1])>>

\* The terms of the block whose header is at line index i, in file order
TermsOf(lines, i) ==
    [j \in 1..lines[i + 1].cnt |->
        [a |-> lines[i + 1 + j].a, b |-> lines[i + 1 + j].b,
         c |-> lines[i + 1 + j].c]]

\* C4 (as claimed): whatever the order of the block headers, every block
\* of the file has its kept terms, a prefix of the block, in the slot it
\* names.
C4_EveryBlockStored ==
    \A r \in Results :
        r.kind = "ok" =>
            LET ch == Chain(file.lines, 0) IN
            \A k \in 1..Len(ch) :
                /\ SlotOf(file.lines, ch[k]) \in DOMAIN r.c
                /\ \E m \in k..Len(ch) :
                     /\ SlotOf(file.lines, ch[m]) = SlotOf(file.lines, ch[k])
                     /\ IsPrefix(r.c[SlotOf(file.lines, ch[k])],
                                 TermsOf(file.lines, ch[m]))

\* C4 (amended): the blocks are stored as long as their elements come in
\* ascending groups 1..6.  In a model returned without error the slots
\* set are exactly those named by the blocks before the first block whose
\* element is lower than an earlier one; each holds a prefix of the last
\* of these blocks that names it; that first out-of-order block and
\* everything after it are skipped.
C4_GroupedBlocksStored ==
    \A r \in Results :
        r.kind = "ok" =>
            LET g == GroupedChain(file.lines, 0, 1) IN
            /\ DOMAIN r.c = { SlotOf(file.lines, g[k]) : k \in 1..Len(g) }
            /\ \A k \in 1..Len(g) :
                 (\A m \in (k + 1)..Len(g) :
                     SlotOf(file.lines, g[m]) # SlotOf(file.lines, g[k]))
                 => IsPrefix(r.c[SlotOf(file.lines, g[k])],
                             TermsOf(file.lines, g[k]))

\* C4 witness: a model returned for a file whose blocks interleave, some
\* stored and the out-of-order ones skipped
C4_InterleavedBuilt ==
    \E r \in Results :
        /\ r.kind = "ok"
        /\ Len(GroupedChain(file.lines, 0, 1)) >= 2
        /\ Len(Chain(file.lines, 0)) > Len(GroupedChain(file.lines, 0, 1))
        /\ \E s \in DOMAIN r.c : Len(r.c[s]) > 0

\* C5: of two models built from the same directory and reference date
\* with precisions p1 < p2 in [0, 0.01], the one for p1 holds, in every
\* slot, the terms the one for p2 holds, at the same positions.
C5_PrecisionMonotone ==
    \A r1, r2 \in Results :
        (/\ r1.kind = "ok" /\ r2.kind = "ok"
         /\ InRange(r1.prec) /\ InRange(r2.prec)
         /\ r1.prec.v < r2.prec.v)
        => \A s \in DOMAIN r2.c :
              s \in DOMAIN r1.c /\ IsPrefix(r2.c[s], r1.c[s])

\* C5 witness: two such models where the larger precision kept some terms
\* of a block and dropped the rest, which the smaller precision kept
C5_TwoModelsDiffer ==
    \E r1, r2 \in Results :
        /\ r1.kind = "ok" /\ r2.kind = "ok"
        /\ InRange(r1.prec) /\ InRange(r2.prec)
        /\ r1.prec.v < r2.prec.v
        /\ \E s \in DOMAIN r2.c :
              Len(r2.c[s]) > 0 /\ Len(r2.c[s]) < Len(r1.c[s])

----------------------------------------------------------------------------
(* Properties of Pos *)

Calls == 1..Len(log)

\* C1 (as claimed): with callers running Pos on one model at the same
\* time, every call returns what the same call returns when run alone.
C1_ConcurrentAsAlone ==
    \A k \in Calls : log[k].r = PosAlone(store, log[k].tdj, log[k].ibody)

\* C6 (as claimed): the L that Pos returns is in [0, 2 pi).
C6_LInRange ==
    \A k \in Calls : 0 <= log[k].r.L /\ log[k].r.L < TwoPi

\* T1^k, as repeated products
RECURSIVE PowT(_, _)
PowT(T1, k) == IF k = 0 THEN One ELSE FMul(T1, PowT(T1, k - 1))

\* The sum over the first m terms of a slot, in stored order, of
\* amplitude * cos(phase + frequency * T1)
RECURSIVE SlotValue(_, _, _)
SlotValue(terms, m, T1) ==
    IF m = 0 THEN 0
    ELSE FAdd(SlotValue(terms, m - 1, T1),
              FMul(terms[m].a, Cos(FAdd(terms[m].b, FMul(terms[m].c, T1)))))

\* The sum over the time powers 0..k, ascending, of T1^k times the slot's sum
RECURSIVE SeriesValue(_, _, _)
SeriesValue(c, k, T1) ==
    IF k < 0 THEN 0
    ELSE FAdd(SeriesValue(c, k - 1, T1),
              FMul(PowT(T1, k), SlotValue(c[k], Len(c[k]), T1)))

SeriesOf(k, e) == store[log[k].ibody][SeriesNames[e]]

\* C7 (as claimed): Pos sets each of the six fields to the series value.
C7_AllSixAreSeries ==
    \A k \in Calls : \A e \in 1..6 :
        log[k].r[ElementNames[e]] = SeriesValue(SeriesOf(k, e), 5, TOf(log[k].tdj))

\* C7 (amended): Pos sets A, K, H, Q and P to the series value, and L to
\* the series value reduced by pmod(., 2 pi).
C7_SeriesAndReducedL ==
    \A k \in Calls : \A e \in 1..6 :
        log[k].r[ElementNames[e]] =
            IF e = 2
            THEN Pmod(SeriesValue(SeriesOf(k, e), 5, TOf(log[k].tdj)), TwoPi)
            ELSE SeriesValue(SeriesOf(k, e), 5, TOf(log[k].tdj))

\* C7 witness: a call at a date off J2000.0 whose series have terms in
\* several slots, and whose L was changed by the reduction
C7_CallWithReduction ==
    \E k \in Calls :
        /\ log[k].tdj # t2000
        /\ log[k].r.K # 0 /\ log[k].r.Q # 0
        /\ SeriesOf(k, 3)[2] # <<>>
        /\ log[k].r.L # SeriesValue(SeriesOf(k, 2), 5, TOf(log[k].tdj))

\* C8: on one model used by one caller, two calls with the same date and
\* body return the same six fields, whatever calls came before or between.
C8_Deterministic ==
    \A i, j \in Calls :
        (log[i].tdj = log[j].tdj /\ log[i].ibody = log[j].ibody)
        => log[i].r = log[j].r

\* C8 witness: a call repeated after a call with another date ran between
C8_RepeatedCall ==
    \E i, m, j \in Calls :
        /\ i < m /\ m < j
        /\ log[i].tdj = log[j].tdj /\ log[i].ibody = log[j].ibody
        /\ log[m].tdj # log[i].tdj
        /\ log[i].r.K # 0

====
